---- MODULE Spec2Model ----
(***************************************************************************)
(* Ground-station telemetry pipeline of the FlightController repository:   *)
(* SerialHandler (line decoder), MainWindow of main_window_spacex.py (the  *)
(* logging shell with its rolling window), DataLogger (session logger) and *)
(* Rocket3DWidget (the 3-D view with its orbiting camera).                 *)
(*                                                                         *)
(* Conventions.  A Python dict is a function whose domain is a set of      *)
(* strings.  A Python None is the empty sequence << >> and a present value *)
(* v is << v >>.  The wall clock `now` counts whole seconds.  The numeric   *)
(* values carried by telemetry keys are integers.  The camera's angles are *)
(* counted in half degrees and its distance in hundredths of a unit, the   *)
(* steps in which drag and scroll events change them.                      *)
(***************************************************************************)
EXTENDS Integers, Sequences, FiniteSets, TLC

VARIABLES
    now,            \* wall clock (time.time(), datetime.now()), in whole seconds
    is_connected,   \* SerialHandler.is_connected
    serial_port,    \* SerialHandler.serial_port: "None", "open" or "closed"
    start_time,     \* SerialHandler.start_time: << >> (None) or << t >>
    sent,           \* number of lines the transport has delivered so far
    timer_active,   \* MainWindow.timer is running
    status_label,   \* MainWindow.status_label text
    log_checkbox,   \* MainWindow.log_checkbox.isChecked()
    log_btn,        \* MainWindow.log_btn text: "Start Logging" / "Stop Logging"
    time_data, roll_data, pitch_data, yaw_data, altitude_data, velocity_data,
    att,            \* Rocket3DWidget roll, pitch, yaw, altitude
    csv_filename,   \* DataLogger.csv_filename
    json_filename,  \* DataLogger.json_filename
    csv_file,       \* DataLogger.csv_file: "None", "open" or "closed"
    json_data,      \* DataLogger.json_data
    is_logging,     \* DataLogger.is_logging
    csv_files,      \* the logs/ directory: csv file name -> rows written
    json_files,     \* the logs/ directory: json file name -> document
    flushes,        \* number of csv_file.flush() calls of the open row sink
    outcome,        \* how the last handler or API call ended
    pushed,         \* history: records pushed into the window since the last clear
    connected_at,   \* history: clock reading at which the last successful connect began
    session_start,  \* history: clock reading at which the last session was opened
    truncated,      \* history: some start_logging emptied a row sink that had rows
    accepted,       \* history: records accepted by log_data since the last open
    camera_distance,    \* Rocket3DWidget: orbit distance, in hundredths of a unit
    camera_rotation_x,  \* Rocket3DWidget: vertical orbit angle, in half degrees
    camera_rotation_y,  \* Rocket3DWidget: horizontal orbit angle, in half degrees
    last_mouse_pos      \* Rocket3DWidget: position of the last press or drag event

serialVars == << is_connected, serial_port, start_time >>
windowVars == << time_data, roll_data, pitch_data, yaw_data, altitude_data, velocity_data >>
shellVars  == << timer_active, status_label, log_checkbox, log_btn >>
loggerVars == << csv_filename, json_filename, csv_file, json_data, is_logging >>
diskVars   == << csv_files, json_files, flushes >>
logHist    == << session_start, truncated, accepted >>
histVars   == << pushed, connected_at, logHist >>
camVars    == << camera_distance, camera_rotation_x, camera_rotation_y, last_mouse_pos >>

vars == << now, sent, serialVars, windowVars, shellVars, att, loggerVars, diskVars,
           outcome, histVars, camVars >>

(***************************************************************************)
(* Bounds of the model.                                                    *)
(***************************************************************************)
MaxNow == 4         \* the clock stops advancing here
MaxLines == 2       \* lines delivered by the transport in the shell runs
MaxLogged == 2      \* records passed to log_data in the logger runs
MaxBuffered == 250   \* records buffered by the logger in the flush runs
MaxStream == 506    \* lines delivered by the transport in the window runs

(***************************************************************************)
(* Python values.                                                          *)
(***************************************************************************)
None == << >>
Some(v) == << v >>

EmptyDict == [k \in {} |-> 0]

HasKey(d, k) == k \in DOMAIN d

\* dict.get(key, default)
Get(d, k, default) == IF k \in DOMAIN d THEN d[k] ELSE default

\* d[key] = value
SetItem(d, key, value) ==
    [k \in DOMAIN d \cup {key} |-> IF k = key THEN value ELSE d[k]]

FirstN(s, n) == IF Len(s) <= n THEN s ELSE SubSeq(s, 1, n)

\* list[-n:]
LastN(s, n) == IF Len(s) <= n THEN s ELSE SubSeq(s, Len(s) - n + 1, Len(s))


(***************************************************************************)
(* The wire.  A line is a sequence of tokens: braces, white space, junk    *)
(* text, and "obj", the text of the members of a JSON object, carried as    *)
(* the list of its key/value pairs.                                        *)
(***************************************************************************)
Tok(c, b) == [ch |-> c, body |-> b]
LB == Tok("{", << >>)
RB == Tok("}", << >>)
SP == Tok(" ", << >>)
CR == Tok("CR", << >>)
LF == Tok("LF", << >>)
Junk == Tok("junk", << >>)
Obj(pairs) == Tok("obj", pairs)

IsSpace(t) == t.ch \in {" ", "CR", "LF"}

\* str.strip()
RECURSIVE LStrip(_)
LStrip(s) == IF s # << >> /\ IsSpace(Head(s)) THEN LStrip(Tail(s)) ELSE s

RECURSIVE RStrip(_)
RStrip(s) ==
    IF s # << >> /\ IsSpace(s[Len(s)]) THEN RStrip(SubSeq(s, 1, Len(s) - 1)) ELSE s

strip(s) == RStrip(LStrip(s))

\* line.startswith('{') and line.endswith('}')
Braced(s) == s # << >> /\ Head(s).ch = "{" /\ s[Len(s)].ch = "}"

\* the text is one JSON object: json.loads succeeds on it
NotSpace(t) == ~IsSpace(t)

ValidJson(s) ==
    LET c == SelectSeq(s, NotSpace) IN
    \/ Len(c) = 2 /\ c[1].ch = "{" /\ c[2].ch = "}"
    \/ Len(c) = 3 /\ c[1].ch = "{" /\ c[2].ch = "obj" /\ c[3].ch = "}"

\* the dict of a list of key/value pairs (a repeated key keeps its last value)
DictOf(pairs) ==
    [k \in {pairs[i][1] : i \in 1..Len(pairs)} |->
        LET last == CHOOSE i \in 1..Len(pairs) :
                        /\ pairs[i][1] = k
                        /\ \A j \in (i + 1)..Len(pairs) : pairs[j][1] # k
        IN pairs[last][2]]

\* json.loads on a text for which ValidJson holds
json_loads(s) ==
    LET c == SelectSeq(s, NotSpace) IN
    IF Len(c) = 2 THEN EmptyDict ELSE DictOf(c[2].body)

\* What one poll of the port finds: no bytes waiting, an I/O error of the
\* port, or a line (its bytes valid UTF-8 or not).
NoBytes == [kind |-> "nobytes", utf8 |-> TRUE, chars |-> << >>]
PortError == [kind |-> "ioerror", utf8 |-> TRUE, chars |-> << >>]
Line(chars) == [kind |-> "line", utf8 |-> TRUE, chars |-> chars]
BadBytes(chars) == [kind |-> "line", utf8 |-> FALSE, chars |-> chars]

(***************************************************************************)
(* SerialHandler                                                           *)
(***************************************************************************)
SleepSeconds == 2    \* time.sleep(2)

\* SerialHandler.read_data: the path taken, the value returned and the
\* exception that leaves the method (None: it returns).
Ret(path, ret) == [path |-> path, ret |-> ret, exc |-> None]

ReadDataNoExcept(rx) ==
    IF ~is_connected \/ serial_port = "None" THEN Ret("closed", None)
    ELSE IF rx.kind = "ioerror"
         THEN [path |-> "read_error", ret |-> None, exc |-> Some("SerialException")]
    ELSE IF rx.kind = "nobytes" THEN Ret("nobytes", None)
    ELSE IF ~rx.utf8
         THEN [path |-> "read_error", ret |-> None, exc |-> Some("UnicodeDecodeError")]
    ELSE LET line == strip(rx.chars) IN
         IF ~Braced(line) THEN Ret("not_json", None)
         ELSE IF ~ValidJson(line)
              THEN [path |-> "read_error", ret |-> None, exc |-> Some("JSONDecodeError")]
         ELSE Ret("record", Some(SetItem(json_loads(line), "time", now - start_time[1])))

ReadData(rx) ==
    IF ~is_connected \/ serial_port = "None" THEN Ret("closed", None)
    ELSE IF rx.kind = "ioerror" THEN Ret("read_error", None)
    ELSE IF rx.kind = "nobytes" THEN Ret("nobytes", None)
    ELSE IF ~rx.utf8 THEN Ret("read_error", None)
    ELSE LET line == strip(rx.chars) IN
         IF ~Braced(line) THEN Ret("not_json", None)
         ELSE IF ~ValidJson(line) THEN Ret("read_error", None)
         ELSE Ret("record", Some(SetItem(json_loads(line), "time", now - start_time[1])))

connectStampsAfterSleep(ok) ==
    IF ok
    THEN /\ serial_port' = "open"
         /\ is_connected' = TRUE
         /\ now' = now + SleepSeconds
         /\ start_time' = Some(now')
    ELSE /\ is_connected' = FALSE
         /\ UNCHANGED << serial_port, start_time, now >>

\* SerialHandler.connect(port); ok: serial.Serial(...) opened the port
connect(ok) ==
    IF ok
    THEN /\ serial_port' = "open"
         /\ is_connected' = TRUE
         /\ start_time' = Some(now)
         /\ now' = now + SleepSeconds
    ELSE /\ is_connected' = FALSE
         /\ UNCHANGED << serial_port, start_time, now >>

\* SerialHandler.disconnect()
disconnect ==
    IF serial_port # "None" /\ is_connected
    THEN /\ serial_port' = "closed"
         /\ is_connected' = FALSE
         /\ UNCHANGED start_time
    ELSE UNCHANGED serialVars


(***************************************************************************)
(* DataLogger                                                              *)
(***************************************************************************)
FlushEvery == 100

\* log_dir / f"telemetry_{timestamp}.csv" and ".json", where timestamp is
\* datetime.now().strftime("%Y%m%d_%H%M%S") at clock reading t
CsvName(t) == << "telemetry_", t, ".csv" >>
JsonName(t) == << "telemetry_", t, ".json" >>

\* datetime.now().isoformat() at clock reading t
isoformat(t) == << "iso", t >>

Header ==
    << "timestamp", "time_seconds", "roll", "pitch", "yaw", "altitude", "velocity",
       "bno_status", "adxl1_status", "adxl2_status", "bmp_status",
       "bno_ax", "bno_ay", "bno_az" >>

RowDefaultsOne(d) ==
    << Get(d, "timestamp", ""), Get(d, "time", 1), Get(d, "roll", 1), Get(d, "pitch", 1),
       Get(d, "yaw", 1), Get(d, "altitude", 1), Get(d, "velocity", 1),
       Get(d, "bno_status", "UNKNOWN"), Get(d, "adxl1_status", "UNKNOWN"),
       Get(d, "adxl2_status", "UNKNOWN"), Get(d, "bmp_status", "UNKNOWN"),
       Get(d, "bno_ax", 1), Get(d, "bno_ay", 1), Get(d, "bno_az", 1) >>

\* the row log_data writes for a stamped record
Row(d) ==
    << Get(d, "timestamp", ""), Get(d, "time", 0), Get(d, "roll", 0), Get(d, "pitch", 0),
       Get(d, "yaw", 0), Get(d, "altitude", 0), Get(d, "velocity", 0),
       Get(d, "bno_status", "UNKNOWN"), Get(d, "adxl1_status", "UNKNOWN"),
       Get(d, "adxl2_status", "UNKNOWN"), Get(d, "bmp_status", "UNKNOWN"),
       Get(d, "bno_ax", 0), Get(d, "bno_ay", 0), Get(d, "bno_az", 0) >>

\* how a call ended: the method, the path through it, the exception that left it
\* and the value it returned; arg: the line a read_data call found at the port
Outcome(call, path, exc) ==
    [call |-> call, path |-> path, exc |-> exc, ret |-> None, arg |-> None]
Returned(call, path, ret) ==
    [call |-> call, path |-> path, exc |-> None, ret |-> ret, arg |-> None]

\* DataLogger.start_logging() run at clock reading t; openok: open() succeeds.
\* StartPath names the path, start_logging the state change.
StartPath(openok) ==
    IF is_logging THEN "early_return" ELSE IF openok THEN "opened" ELSE "open_failed"

StartExc(openok) ==
    IF ~is_logging /\ ~openok THEN Some("OSError") ELSE None

start_logging_reopens(t, openok) ==
    IF ~openok
    THEN UNCHANGED << loggerVars, diskVars, logHist >>
    ELSE /\ csv_file' = "open"
         /\ csv_files' = SetItem(csv_files, csv_filename, << Header >>)
         /\ flushes' = 0
         /\ is_logging' = TRUE
         /\ session_start' = Some(t)
         /\ truncated' = (truncated \/ (HasKey(csv_files, csv_filename)
                                          /\ Len(csv_files[csv_filename]) > 1))
         /\ accepted' = << >>
         /\ UNCHANGED << csv_filename, json_filename, json_data, json_files >>

start_logging(t, openok) ==
    IF is_logging \/ ~openok
    THEN UNCHANGED << loggerVars, diskVars, logHist >>
    ELSE /\ csv_file' = "open"
         /\ csv_files' = SetItem(csv_files, csv_filename, << Header >>)
         /\ flushes' = 0
         /\ is_logging' = TRUE
         /\ session_start' = Some(t)
         /\ truncated' = (truncated \/ (HasKey(csv_files, csv_filename)
                                          /\ Len(csv_files[csv_filename]) > 1))
         /\ accepted' = << >>
         /\ UNCHANGED << csv_filename, json_filename, json_data, json_files >>

log_data_fault_ends_session(data, fault) ==
    IF ~is_logging
    THEN UNCHANGED << loggerVars, diskVars, logHist >>
    ELSE LET d == SetItem(data, "timestamp", isoformat(now)) IN
         IF fault = "write"
         THEN /\ is_logging' = FALSE
              /\ UNCHANGED << csv_filename, json_filename, csv_file, json_data,
                              diskVars, logHist >>
         ELSE /\ csv_files' = [csv_files EXCEPT
                                 ![csv_filename] = Append(@, Row(d))]
              /\ json_data' = Append(json_data, d)
              /\ flushes' = IF Len(json_data') % FlushEvery = 0 /\ fault # "flush"
                            THEN flushes + 1 ELSE flushes
              /\ accepted' = Append(accepted, d)
              /\ UNCHANGED << csv_filename, json_filename, csv_file, is_logging,
                              json_files, session_start, truncated >>

log_data_buffers_first(data, fault) ==
    IF ~is_logging
    THEN UNCHANGED << loggerVars, diskVars, logHist >>
    ELSE LET d == SetItem(data, "timestamp", isoformat(now)) IN
         /\ json_data' = Append(json_data, d)
         /\ accepted' = Append(accepted, d)
         /\ csv_files' = IF fault = "write" THEN csv_files
                         ELSE [csv_files EXCEPT ![csv_filename] = Append(@, Row(d))]
         /\ flushes' = IF Len(json_data') % FlushEvery = 0 /\ fault = "none"
                       THEN flushes + 1 ELSE flushes
         /\ UNCHANGED << csv_filename, json_filename, csv_file, is_logging,
                         json_files, session_start, truncated >>

log_data_when_inactive(data, fault) ==
    LET d == SetItem(data, "timestamp", isoformat(now)) IN
    IF fault = "write"
    THEN UNCHANGED << loggerVars, diskVars, logHist >>
    ELSE /\ json_data' = Append(json_data, d)
         /\ accepted' = Append(accepted, d)
         /\ csv_files' = IF is_logging
                         THEN [csv_files EXCEPT ![csv_filename] = Append(@, Row(d))]
                         ELSE csv_files
         /\ flushes' = IF is_logging /\ Len(json_data') % FlushEvery = 0 /\ fault # "flush"
                       THEN flushes + 1 ELSE flushes
         /\ UNCHANGED << csv_filename, json_filename, csv_file, is_logging,
                         json_files, session_start, truncated >>

\* DataLogger.log_data(data); fault: "none", "write" (writerow raises) or
\* "flush" (flush raises, when it is called)
log_data(data, fault) ==
    IF ~is_logging
    THEN UNCHANGED << loggerVars, diskVars, logHist >>
    ELSE LET d == SetItem(data, "timestamp", isoformat(now)) IN
         IF fault = "write"
         THEN UNCHANGED << loggerVars, diskVars, logHist >>
         ELSE /\ csv_files' = [csv_files EXCEPT
                                 ![csv_filename] = Append(@, Row(d))]
              /\ json_data' = Append(json_data, d)
              /\ flushes' = IF Len(json_data') % FlushEvery = 0 /\ fault # "flush"
                            THEN flushes + 1 ELSE flushes
              /\ accepted' = Append(accepted, d)
              /\ UNCHANGED << csv_filename, json_filename, csv_file, is_logging,
                              json_files, session_start, truncated >>

DocumentEndIsStart ==
    [complete |-> TRUE,
     metadata |->
        [start_time |-> IF json_data # << >> THEN Some(json_data[1]["timestamp"]) ELSE None,
         end_time |-> IF json_data # << >> THEN Some(json_data[1]["timestamp"]) ELSE None,
         total_samples |-> Len(json_data)],
     data |-> json_data]

\* the document stop_logging serialises
Document ==
    [complete |-> TRUE,
     metadata |->
        [start_time |-> IF json_data # << >> THEN Some(json_data[1]["timestamp"]) ELSE None,
         end_time |-> IF json_data # << >>
                      THEN Some(json_data[Len(json_data)]["timestamp"]) ELSE None,
         total_samples |-> Len(json_data)],
     data |-> json_data]

PartialDocument ==
    [complete |-> FALSE,
     metadata |-> [start_time |-> None, end_time |-> None, total_samples |-> 0],
     data |-> << >>]

\* DataLogger.stop_logging(); dumpok: writing the document succeeds
StopPath(dumpok) ==
    IF ~is_logging THEN "early_return" ELSE IF dumpok THEN "saved" ELSE "save_failed"

stop_logging_aborts_on_failure(dumpok) ==
    IF ~is_logging
    THEN UNCHANGED << loggerVars, diskVars, logHist >>
    ELSE /\ csv_file' = IF csv_file # "None" THEN "closed" ELSE csv_file
         /\ json_files' = SetItem(json_files, json_filename,
                                  IF dumpok THEN Document ELSE PartialDocument)
         /\ is_logging' = ~dumpok
         /\ UNCHANGED << csv_filename, json_filename, json_data, csv_files, flushes,
                         logHist >>

stop_logging(dumpok) ==
    IF ~is_logging
    THEN UNCHANGED << loggerVars, diskVars, logHist >>
    ELSE /\ csv_file' = IF csv_file # "None" THEN "closed" ELSE csv_file
         /\ json_files' = SetItem(json_files, json_filename,
                                  IF dumpok THEN Document ELSE PartialDocument)
         /\ is_logging' = FALSE
         /\ UNCHANGED << csv_filename, json_filename, json_data, csv_files, flushes,
                         logHist >>

\* max(list)
RECURSIVE MaxOf(_)
MaxOf(s) ==
    IF Len(s) = 1 THEN s[1]
    ELSE LET m == MaxOf(Tail(s)) IN IF s[1] >= m THEN s[1] ELSE m

\* DataLogger.get_stats() over a buffer
StatsOf(buf) ==
    IF buf = << >> THEN None
    ELSE Some([samples |-> Len(buf),
               duration |-> IF Len(buf) > 1
                            THEN buf[Len(buf)]["time"] - buf[1]["time"] ELSE 0,
               max_altitude |-> MaxOf([i \in 1..Len(buf) |-> Get(buf[i], "altitude", 0)]),
               max_roll |-> MaxOf([i \in 1..Len(buf) |-> Get(buf[i], "roll", 0)]),
               max_pitch |-> MaxOf([i \in 1..Len(buf) |-> Get(buf[i], "pitch", 0)])])

get_stats == StatsOf(json_data)


(***************************************************************************)
(* MainWindow (main_window_spacex.py)                                      *)
(***************************************************************************)
max_points == 500

IsTelemetryNeedsVelocity(d) ==
    {"roll", "pitch", "yaw", "altitude", "velocity"} \subseteq DOMAIN d

\* all(key in data for key in ['roll', 'pitch', 'yaw', 'altitude'])
IsTelemetry(d) == {"roll", "pitch", "yaw", "altitude"} \subseteq DOMAIN d

\* the value appended to velocity_data
VelocityOf(d) == IF HasKey(d, "velocity") THEN d["velocity"] ELSE 0

TrimNever(s, over) == s

\* the "Limit buffer size" step on one list; over: len(time_data) > max_points
Trim(s, over) == IF over THEN LastN(s, max_points) ELSE s

\* Rocket3DWidget.update_orientation(roll, pitch, yaw, altitude)
update_orientation(roll, pitch, yaw, altitude) ==
    att' = [roll |-> roll, pitch |-> pitch, yaw |-> yaw, altitude |-> altitude]

pushTwice(d) ==
    LET t == time_data \o << d["time"], d["time"] >>
        over == Len(t) > max_points
    IN /\ time_data' = Trim(t, over)
       /\ roll_data' = Trim(roll_data \o << d["roll"], d["roll"] >>, over)
       /\ pitch_data' = Trim(pitch_data \o << d["pitch"], d["pitch"] >>, over)
       /\ yaw_data' = Trim(yaw_data \o << d["yaw"], d["yaw"] >>, over)
       /\ altitude_data' = Trim(altitude_data \o << d["altitude"], d["altitude"] >>, over)
       /\ velocity_data' = Trim(velocity_data \o << VelocityOf(d), VelocityOf(d) >>, over)

pushSkipsMissingVelocity(d) ==
    LET t == Append(time_data, d["time"])
        over == Len(t) > max_points
    IN /\ time_data' = Trim(t, over)
       /\ roll_data' = Trim(Append(roll_data, d["roll"]), over)
       /\ pitch_data' = Trim(Append(pitch_data, d["pitch"]), over)
       /\ yaw_data' = Trim(Append(yaw_data, d["yaw"]), over)
       /\ altitude_data' = Trim(Append(altitude_data, d["altitude"]), over)
       /\ velocity_data' = IF HasKey(d, "velocity")
                           THEN Trim(Append(velocity_data, d["velocity"]), over)
                           ELSE velocity_data

\* the "Update storage" and "Limit buffer size" steps of update_data
push(d) ==
    LET t == Append(time_data, d["time"])
        over == Len(t) > max_points
    IN /\ time_data' = Trim(t, over)
       /\ roll_data' = Trim(Append(roll_data, d["roll"]), over)
       /\ pitch_data' = Trim(Append(pitch_data, d["pitch"]), over)
       /\ yaw_data' = Trim(Append(yaw_data, d["yaw"]), over)
       /\ altitude_data' = Trim(Append(altitude_data, d["altitude"]), over)
       /\ velocity_data' = Trim(Append(velocity_data, VelocityOf(d)), over)

clear_data_keeps_velocity ==
    /\ time_data' = << >>
    /\ roll_data' = << >>
    /\ pitch_data' = << >>
    /\ yaw_data' = << >>
    /\ altitude_data' = << >>
    /\ velocity_data' = velocity_data

\* the six list.clear() calls of clear_data
clear_data ==
    /\ time_data' = << >>
    /\ roll_data' = << >>
    /\ pitch_data' = << >>
    /\ yaw_data' = << >>
    /\ altitude_data' = << >>
    /\ velocity_data' = << >>

\* MainWindow.update_data() on a timer tick that finds rx at the port
UpdateData(rx, fault) ==
    /\ timer_active
    /\ sent' = IF rx.kind = "line" /\ is_connected THEN sent + 1 ELSE sent
    /\ LET r == ReadData(rx) IN
       IF r.exc # None
       THEN /\ outcome' = Outcome("update_data", r.path, r.exc)
            /\ UNCHANGED << windowVars, att, loggerVars, diskVars, pushed, logHist >>
       ELSE IF r.ret # None /\ DOMAIN r.ret[1] # {} /\ IsTelemetry(r.ret[1])
       THEN LET d == r.ret[1] IN
            /\ IF is_logging
               THEN log_data(d, fault)
               ELSE UNCHANGED << loggerVars, diskVars, logHist >>
            /\ push(d)
            /\ update_orientation(d["roll"], d["pitch"], d["yaw"], d["altitude"])
            /\ pushed' = Append(pushed, d)
            /\ outcome' = Returned("update_data", "telemetry", r.ret)
       ELSE /\ outcome' = Returned("update_data", r.path, r.ret)
            /\ UNCHANGED << windowVars, att, loggerVars, diskVars, pushed, logHist >>
    /\ UNCHANGED << camVars, now, serialVars, shellVars, connected_at >>

\* MainWindow.clear_data()
ClearData ==
    /\ clear_data
    /\ pushed' = << >>
    /\ outcome' = Outcome("clear_data",
                          IF time_data # << >> THEN "nonempty" ELSE "empty", None)
    /\ UNCHANGED << camVars, now, sent, serialVars, shellVars, att, loggerVars, diskVars,
                    connected_at, logHist >>

ToggleConnectionKeepsSession(ok, openok, dumpok) ==
    IF ~is_connected
    THEN /\ ok => now + SleepSeconds <= MaxNow
         /\ connect(ok)
         /\ connected_at' = IF ok THEN Some(now) ELSE connected_at
         /\ IF ok
            THEN /\ status_label' = "CONNECTED"
                 /\ timer_active' = TRUE
                 /\ IF log_checkbox /\ ~is_logging
                    THEN /\ start_logging(now', openok)
                         /\ log_btn' = IF openok THEN "Stop Logging" ELSE log_btn
                         /\ outcome' = Outcome("toggle_connection", "connected",
                                               StartExc(openok))
                    ELSE /\ UNCHANGED << loggerVars, diskVars, logHist, log_btn >>
                         /\ outcome' = Outcome("toggle_connection", "connected", None)
            ELSE /\ status_label' = "CONNECTION FAILED"
                 /\ outcome' = Outcome("toggle_connection", "failed", None)
                 /\ UNCHANGED << timer_active, log_btn, loggerVars, diskVars, logHist >>
         /\ UNCHANGED << camVars, sent, windowVars, att, log_checkbox, pushed >>
    ELSE /\ disconnect
         /\ status_label' = "DISCONNECTED"
         /\ timer_active' = FALSE
         /\ UNCHANGED << loggerVars, diskVars, logHist, log_btn >>
         /\ outcome' = Outcome("toggle_connection", "disconnected", None)
         /\ UNCHANGED << camVars, now, sent, windowVars, att, log_checkbox, pushed,
                         connected_at >>

\* MainWindow.toggle_connection()
ToggleConnection(ok, openok, dumpok) ==
    IF ~is_connected
    THEN /\ ok => now + SleepSeconds <= MaxNow
         /\ connect(ok)
         /\ connected_at' = IF ok THEN Some(now) ELSE connected_at
         /\ IF ok
            THEN /\ status_label' = "CONNECTED"
                 /\ timer_active' = TRUE
                 /\ IF log_checkbox /\ ~is_logging
                    THEN /\ start_logging(now', openok)
                         /\ log_btn' = IF openok THEN "Stop Logging" ELSE log_btn
                         /\ outcome' = Outcome("toggle_connection", "connected",
                                               StartExc(openok))
                    ELSE /\ UNCHANGED << loggerVars, diskVars, logHist, log_btn >>
                         /\ outcome' = Outcome("toggle_connection", "connected", None)
            ELSE /\ status_label' = "CONNECTION FAILED"
                 /\ outcome' = Outcome("toggle_connection", "failed", None)
                 /\ UNCHANGED << timer_active, log_btn, loggerVars, diskVars, logHist >>
         /\ UNCHANGED << camVars, sent, windowVars, att, log_checkbox, pushed >>
    ELSE /\ disconnect
         /\ status_label' = "DISCONNECTED"
         /\ timer_active' = FALSE
         /\ IF is_logging
            THEN /\ stop_logging(dumpok)
                 /\ log_btn' = "Start Logging"
            ELSE UNCHANGED << loggerVars, diskVars, logHist, log_btn >>
         /\ outcome' = Outcome("toggle_connection", "disconnected", None)
         /\ UNCHANGED << camVars, now, sent, windowVars, att, log_checkbox, pushed,
                         connected_at >>

\* MainWindow.toggle_logging()
ToggleLogging(openok, dumpok) ==
    /\ IF ~is_logging
       THEN /\ start_logging(now, openok)
            /\ log_btn' = IF openok THEN "Stop Logging" ELSE log_btn
            /\ outcome' = Outcome("toggle_logging", StartPath(openok), StartExc(openok))
       ELSE /\ stop_logging(dumpok)
            /\ log_btn' = "Start Logging"
            /\ outcome' = Outcome("toggle_logging", StopPath(dumpok), None)
    /\ UNCHANGED << camVars, now, sent, serialVars, windowVars, att, timer_active, status_label,
                    log_checkbox, pushed, connected_at >>

\* the user ticks or unticks the "Auto-log data" checkbox
ToggleCheckbox ==
    /\ log_checkbox' = ~log_checkbox
    /\ UNCHANGED << camVars, now, sent, serialVars, windowVars, att, timer_active, status_label,
                    log_btn, loggerVars, diskVars, outcome, histVars >>

\* the wall clock advances between calls
Advance ==
    /\ now < MaxNow
    /\ now' = now + 1
    /\ UNCHANGED << camVars, sent, serialVars, windowVars, shellVars, att, loggerVars, diskVars,
                    outcome, histVars >>

(***************************************************************************)
(* Rocket3DWidget (rocket_orientation_widget_3d.py)                        *)
(***************************************************************************)
PerDegree == 2      \* a drag of one pixel turns the camera by 0.5 degree
PerUnit == 100      \* a scroll of one step moves the camera by 0.01 unit

\* the camera settings of Rocket3DWidget.__init__; last_mouse_pos is not set
InitCamera ==
    /\ camera_distance = 5 * PerUnit
    /\ camera_rotation_x = 20 * PerDegree
    /\ camera_rotation_y = 0
    /\ last_mouse_pos = None

ClampWide(lo, hi, v) == IF v < lo - 1 THEN lo - 1 ELSE IF v > hi + 1 THEN hi + 1 ELSE v

\* max(lo, min(hi, v))
Clamp(lo, hi, v) == IF v < lo THEN lo ELSE IF v > hi THEN hi ELSE v

\* Rocket3DWidget.mousePressEvent(event)
mousePressEvent(pos) ==
    /\ last_mouse_pos' = Some(pos)
    /\ UNCHANGED << camera_distance, camera_rotation_x, camera_rotation_y >>

mouseMoveEventIgnoresButtons(pos, buttons) ==
    LET dx == pos.x - last_mouse_pos[1].x
        dy == pos.y - last_mouse_pos[1].y
    IN /\ camera_rotation_y' = camera_rotation_y + dx
       /\ camera_rotation_x' =
             Clamp(-89 * PerDegree, 89 * PerDegree, camera_rotation_x + dy)
       /\ last_mouse_pos' = Some(pos)
       /\ UNCHANGED camera_distance

\* Rocket3DWidget.mouseMoveEvent(event); buttons: a button is held
mouseMoveEvent(pos, buttons) ==
    IF buttons
    THEN LET dx == pos.x - last_mouse_pos[1].x
             dy == pos.y - last_mouse_pos[1].y
         IN /\ camera_rotation_y' = camera_rotation_y + dx
            /\ camera_rotation_x' =
                  Clamp(-89 * PerDegree, 89 * PerDegree, camera_rotation_x + dy)
            /\ last_mouse_pos' = Some(pos)
            /\ UNCHANGED camera_distance
    ELSE UNCHANGED camVars

\* Rocket3DWidget.wheelEvent(event); delta: event.angleDelta().y()
wheelEvent(delta) ==
    /\ camera_distance' = Clamp(2 * PerUnit, 15 * PerUnit, camera_distance - delta)
    /\ UNCHANGED << camera_rotation_x, camera_rotation_y, last_mouse_pos >>

\* sine and cosine of an angle of whole quarter turns, in degrees
Sin90(a) == LET r == a % 360 IN
            CASE r = 0 -> 0 [] r = 90 -> 1 [] r = 180 -> 0 [] r = 270 -> -1
Cos90(a) == Sin90(a + 90)

\* 3 x 3 matrices as sequences of rows; vectors as sequences
Identity3 == << <<1, 0, 0>>, <<0, 1, 0>>, <<0, 0, 1>> >>
Mul(A, B) == [i \in 1..3 |-> [j \in 1..3 |->
                 A[i][1] * B[1][j] + A[i][2] * B[2][j] + A[i][3] * B[3][j]]]
Apply(A, v) == [i \in 1..3 |-> A[i][1] * v[1] + A[i][2] * v[2] + A[i][3] * v[3]]
Plus(u, v) == [i \in 1..3 |-> u[i] + v[i]]

\* the matrix glRotatef(a, x, y, z) multiplies in, for the three axes used
RotationMatrix(a, axis) ==
    LET c == Cos90(a)
        sn == Sin90(a)
    IN CASE axis = <<1, 0, 0>> -> << <<1, 0, 0>>, <<0, c, -sn>>, <<0, sn, c>> >>
         [] axis = <<0, 1, 0>> -> << <<c, 0, sn>>, <<0, 1, 0>>, <<-sn, 0, c>> >>
         [] axis = <<0, 0, 1>> -> << <<c, -sn, 0>>, <<sn, c, 0>>, <<0, 0, 1>> >>

GLCallsRollFirst ==
    << << "glClear" >>,
       << "glLoadIdentity" >>,
       << "gluLookAt", camera_distance, camera_rotation_x, camera_rotation_y >>,
       << "draw_grid" >>,
       << "draw_horizon" >>,
       << "glTranslatef", <<0, att.altitude, 0>> >>,
       << "glRotatef", att.roll, <<0, 0, 1>> >>,
       << "glRotatef", att.pitch, <<1, 0, 0>> >>,
       << "glRotatef", att.yaw, <<0, 1, 0>> >>,
       << "draw_rocket" >>,
       << "draw_axes" >> >>

\* the calls of Rocket3DWidget.paintGL, in program order; the translation is
\* altitude * 0.01 units, that is altitude hundredths of a unit
GLCalls ==
    << << "glClear" >>,
       << "glLoadIdentity" >>,
       << "gluLookAt", camera_distance, camera_rotation_x, camera_rotation_y >>,
       << "draw_grid" >>,
       << "draw_horizon" >>,
       << "glTranslatef", <<0, att.altitude, 0>> >>,
       << "glRotatef", att.yaw, <<0, 1, 0>> >>,
       << "glRotatef", att.pitch, <<1, 0, 0>> >>,
       << "glRotatef", att.roll, <<0, 0, 1>> >>,
       << "draw_rocket" >>,
       << "draw_axes" >> >>

\* twice the sine of an angle of whole degrees whose sine is rational
TwoSin(a) == LET r == a % 360 IN
             CASE r = 0 -> 0 [] r = 30 -> 1 [] r = 90 -> 2 [] r = 150 -> 1
               [] r = 180 -> 0 [] r = 210 -> -1 [] r = 270 -> -2 [] r = 330 -> -1
TwoCos(a) == TwoSin(a + 90)

\* the camera angles at which the three trigonometric values used by
\* gluLookAt's eye point are rational
ExactAngles ==
    /\ camera_rotation_x % (30 * PerDegree) = 0
    /\ camera_rotation_y % (90 * PerDegree) = 0

\* The eye point paintGL passes to gluLookAt,
\*   (d * sin(rotation_y), d * sin(rotation_x), d * cos(rotation_y)),
\* in two-hundredths of a unit; no value where it is not rational.
LookAtEye ==
    IF ExactAngles
    THEN Some(<< camera_distance * TwoSin(camera_rotation_y \div PerDegree),
                 camera_distance * TwoSin(camera_rotation_x \div PerDegree),
                 camera_distance * TwoCos(camera_rotation_y \div PerDegree) >>)
    ELSE None

\* The effect of one call on the model-view transform (taken relative to the
\* camera's view: L its linear part, t its offset in hundredths of a unit)
\* and on the list of things drawn, each with the transform it was drawn in.
GLStep(g, call) ==
    CASE call[1] = "glLoadIdentity" ->
            [g EXCEPT !.L = Identity3, !.t = <<0, 0, 0>>]
      [] call[1] = "glTranslatef" ->
            [g EXCEPT !.t = Plus(g.t, Apply(g.L, call[2]))]
      [] call[1] = "glRotatef" ->
            [g EXCEPT !.L = Mul(g.L, RotationMatrix(call[2], call[3]))]
      [] call[1] \in {"draw_grid", "draw_horizon", "draw_rocket", "draw_axes"} ->
            [g EXCEPT !.drawn = Append(g.drawn, [what |-> call[1], L |-> g.L, t |-> g.t])]
      [] OTHER -> g

RECURSIVE GLRun(_, _)
GLRun(g, calls) ==
    IF calls = << >> THEN g ELSE GLRun(GLStep(g, Head(calls)), Tail(calls))

\* Rocket3DWidget.paintGL(): what one redraw draws
paintGL == GLRun([L |-> Identity3, t |-> <<0, 0, 0>>, drawn |-> << >>], GLCalls).drawn

(***************************************************************************)
(* The state after MainWindow.__init__ (which constructs the SerialHandler *)
(* and the DataLogger) at clock reading 0.                                 *)
(***************************************************************************)
Init ==
    /\ now = 0
    /\ is_connected = FALSE
    /\ serial_port = "None"
    /\ start_time = None
    /\ sent = 0
    /\ timer_active = FALSE
    /\ status_label = "DISCONNECTED"
    /\ log_checkbox = TRUE
    /\ log_btn = "Start Logging"
    /\ time_data = << >>
    /\ roll_data = << >>
    /\ pitch_data = << >>
    /\ yaw_data = << >>
    /\ altitude_data = << >>
    /\ velocity_data = << >>
    /\ att = [roll |-> 0, pitch |-> 0, yaw |-> 0, altitude |-> 0]
    /\ InitCamera
    /\ csv_filename = CsvName(0)
    /\ json_filename = JsonName(0)
    /\ csv_file = "None"
    /\ json_data = << >>
    /\ is_logging = FALSE
    /\ csv_files = EmptyDict
    /\ json_files = EmptyDict
    /\ flushes = 0
    /\ outcome = Outcome("__init__", "constructed", None)
    /\ pushed = << >>
    /\ connected_at = None
    /\ session_start = None
    /\ truncated = FALSE
    /\ accepted = << >>

(***************************************************************************)
(* The shell runs: any line at any tick, any button at any time, all      *)
(* within the clock readings that connect's sleep produces.                *)
(***************************************************************************)
TeleA == << <<"roll", 10>>, <<"pitch", 20>>, <<"yaw", 30>>, <<"altitude", 40>> >>
TeleB == << <<"roll", 11>>, <<"pitch", 21>>, <<"yaw", 31>>, <<"altitude", 41>>,
            <<"velocity", 51>>, <<"time", 99>>, <<"bno_status", "OK">> >>
Partial == << <<"roll", 12>>, <<"pitch", 22>>, <<"yaw", 32>> >>
StatusMsg == << <<"status", "ready">> >>
ErrorMsg == << <<"error", "sensor">> >>

TelemetryLines ==
    { Line(<< LB, Obj(TeleA), RB, LF >>),
      Line(<< SP, LB, Obj(TeleB), RB, CR, LF >>) }

OtherRecordLines ==
    { Line(<< LB, Obj(Partial), RB, LF >>),
      Line(<< LB, Obj(StatusMsg), RB, CR, LF >>),
      Line(<< LB, Obj(ErrorMsg), RB, LF >>),
      Line(<< LB, RB, LF >>) }

MalformedLines ==
    { Line(<< LF >>),
      Line(<< Junk, LF >>),
      Line(<< LB, Obj(TeleA) >>),
      Line(<< Obj(TeleA), RB, LF >>),
      Line(<< LB, Junk, RB, LF >>),
      Line(<< LB, Obj(TeleA), RB, LB, Obj(TeleA), RB, LF >>),
      BadBytes(<< LB, Obj(TeleA), RB, LF >>) }

Inputs == {NoBytes, PortError} \cup TelemetryLines \cup OtherRecordLines \cup MalformedLines

Faults == {"none", "write", "flush"}

Next ==
    \/ \E rx \in Inputs, fault \in (IF is_logging THEN Faults ELSE {"none"}) :
            /\ rx.kind = "line" => sent < MaxLines
            /\ UpdateData(rx, fault)
    \/ ClearData
    \/ \E ok, openok, dumpok \in BOOLEAN : ToggleConnection(ok, openok, dumpok)
    \/ \E openok, dumpok \in BOOLEAN : ToggleLogging(openok, dumpok)
    \/ ToggleCheckbox

Spec == Init /\ [][Next]_vars

(***************************************************************************)
(* The window runs: the device sends a fixed stream of distinct records,   *)
(* long enough to overflow the window; the auto-log box is unticked and    *)
(* the user clears the window at some of the stream positions.             *)
(***************************************************************************)
DeviceRecord(n) ==
    IF n % 2 = 0
    THEN << <<"roll", n>>, <<"pitch", 1000 + n>>, <<"yaw", 2000 + n>>,
            <<"altitude", 3000 + n>>, <<"velocity", 4000 + n>> >>
    ELSE << <<"roll", n>>, <<"pitch", 1000 + n>>, <<"yaw", 2000 + n>>,
            <<"altitude", 3000 + n>> >>

DeviceLine(n) ==
    IF n = 3 THEN Line(<< LB, Obj(StatusMsg), RB, LF >>)
    ELSE IF n = 5 THEN Line(<< LB, Obj(DeviceRecord(n)) >>)
    ELSE IF n = 498 THEN Line(<< LB, Obj(Partial), RB, LF >>)
    ELSE IF n = 500 THEN Line(<< LB, Obj(ErrorMsg), RB, LF >>)
    ELSE Line(<< LB, Obj(DeviceRecord(n)), RB, CR, LF >>)

InitWindow ==
    /\ now = 0
    /\ is_connected = FALSE
    /\ serial_port = "None"
    /\ start_time = None
    /\ sent = 0
    /\ timer_active = FALSE
    /\ status_label = "DISCONNECTED"
    /\ log_checkbox = FALSE
    /\ log_btn = "Start Logging"
    /\ time_data = << >>
    /\ roll_data = << >>
    /\ pitch_data = << >>
    /\ yaw_data = << >>
    /\ altitude_data = << >>
    /\ velocity_data = << >>
    /\ att = [roll |-> 0, pitch |-> 0, yaw |-> 0, altitude |-> 0]
    /\ InitCamera
    /\ csv_filename = CsvName(0)
    /\ json_filename = JsonName(0)
    /\ csv_file = "None"
    /\ json_data = << >>
    /\ is_logging = FALSE
    /\ csv_files = EmptyDict
    /\ json_files = EmptyDict
    /\ flushes = 0
    /\ outcome = Outcome("__init__", "constructed", None)
    /\ pushed = << >>
    /\ connected_at = None
    /\ session_start = None
    /\ truncated = FALSE
    /\ accepted = << >>

\* the stream positions at which the user may press "Clear Data"
ClearPoint(n) == n < 8 \/ n % 100 = 50 \/ n > 495

NextWindow ==
    \/ /\ sent < MaxStream
       /\ UpdateData(DeviceLine(sent), "none")
    \/ /\ ClearPoint(sent)
       /\ ClearData
    \/ \E ok \in BOOLEAN : ToggleConnection(ok, TRUE, TRUE)

SpecWindow == InitWindow /\ [][NextWindow]_vars

(***************************************************************************)
(* The serial runs: the methods of one SerialHandler called in any order.  *)
(***************************************************************************)
Connect(ok) ==
    /\ ok => now + SleepSeconds <= MaxNow
    /\ connect(ok)
    /\ connected_at' = IF ok THEN Some(now) ELSE connected_at
    /\ outcome' = Returned("connect", IF ok THEN "connected" ELSE "failed", Some(ok))
    /\ UNCHANGED << camVars, sent, windowVars, shellVars, att, loggerVars, diskVars,
                    pushed, logHist >>

Disconnect ==
    /\ disconnect
    /\ outcome' = Returned("disconnect",
                           IF serial_port # "None" /\ is_connected THEN "closed" ELSE "noop",
                           None)
    /\ UNCHANGED << camVars, now, sent, windowVars, shellVars, att, loggerVars, diskVars,
                    histVars >>

Read(rx) ==
    /\ rx.kind = "line" => sent < MaxLines
    /\ sent' = IF rx.kind = "line" /\ is_connected THEN sent + 1 ELSE sent
    /\ outcome' = [call |-> "read_data", path |-> ReadData(rx).path,
                   exc |-> ReadData(rx).exc, ret |-> ReadData(rx).ret, arg |-> Some(rx)]
    /\ UNCHANGED << camVars, now, serialVars, windowVars, shellVars, att, loggerVars, diskVars,
                    histVars >>

\* SerialHandler.write_data(data); wok: serial_port.write succeeds
write_data(wok) == is_connected /\ serial_port # "None" /\ wok

Write(wok) ==
    /\ outcome' = Returned("write_data",
                           IF is_connected /\ serial_port # "None"
                           THEN (IF wok THEN "written" ELSE "write_error")
                           ELSE "closed",
                           Some(write_data(wok)))
    /\ UNCHANGED << camVars, now, sent, serialVars, windowVars, shellVars, att, loggerVars,
                    diskVars, histVars >>

NextSerial ==
    \/ \E ok \in BOOLEAN : Connect(ok)
    \/ Disconnect
    \/ \E rx \in Inputs : Read(rx)
    \/ \E wok \in BOOLEAN : Write(wok)
    \/ Advance

SpecSerial == Init /\ [][NextSerial]_vars

(***************************************************************************)
(* The logger runs: the methods of one DataLogger called in any order.     *)
(***************************************************************************)
SampleA == SetItem(DictOf(TeleA), "time", 1)
SampleB == SetItem(DictOf(TeleB), "time", 3)
SampleC == [altitude |-> 7]

Samples == {SampleA, SampleB, SampleC}

StartLogging(openok) ==
    /\ start_logging(now, openok)
    /\ outcome' = Outcome("start_logging", StartPath(openok), StartExc(openok))
    /\ UNCHANGED << camVars, now, sent, serialVars, windowVars, shellVars, att, pushed,
                    connected_at >>

LogPath(fault) ==
    IF ~is_logging THEN "inactive"
    ELSE IF fault = "write" THEN "write_failed"
    ELSE IF fault = "flush" /\ (Len(json_data) + 1) % FlushEvery = 0 THEN "flush_failed"
    ELSE "accepted"

LogData(data, fault) ==
    /\ is_logging => Len(json_data) < MaxLogged
    /\ log_data(data, fault)
    /\ outcome' = Outcome("log_data", LogPath(fault), None)
    /\ UNCHANGED << camVars, now, sent, serialVars, windowVars, shellVars, att, pushed,
                    connected_at >>

StopLogging(dumpok) ==
    /\ stop_logging(dumpok)
    /\ outcome' = Outcome("stop_logging", StopPath(dumpok), None)
    /\ UNCHANGED << camVars, now, sent, serialVars, windowVars, shellVars, att, pushed,
                    connected_at >>

\* json_data[-1]['time'] - json_data[0]['time'] raises KeyError
StatsKeyError ==
    /\ Len(json_data) > 1
    /\ ~(HasKey(json_data[1], "time") /\ HasKey(json_data[Len(json_data)], "time"))

GetStats ==
    /\ outcome' = IF StatsKeyError
                  THEN Outcome("get_stats", "raised", Some("KeyError"))
                  ELSE Returned("get_stats", "returned", get_stats)
    /\ UNCHANGED << camVars, now, sent, serialVars, windowVars, shellVars, att, loggerVars,
                    diskVars, histVars >>

NextLogger ==
    \/ \E openok \in BOOLEAN : StartLogging(openok)
    \/ \E data \in Samples, fault \in Faults : LogData(data, fault)
    \/ \E dumpok \in BOOLEAN : StopLogging(dumpok)
    \/ GetStats
    \/ Advance

SpecLogger == Init /\ [][NextLogger]_vars

(***************************************************************************)
(* The session runs: the shell's handlers up to the closing of the window. *)
(***************************************************************************)
CloseEventKeepsSession(dumpok) ==
    /\ IF is_connected THEN disconnect ELSE UNCHANGED serialVars
    /\ UNCHANGED << loggerVars, diskVars, logHist >>
    /\ outcome' = Outcome("closeEvent", "accepted", None)
    /\ UNCHANGED << camVars, now, sent, windowVars, shellVars, att, pushed, connected_at >>

\* MainWindow.closeEvent(event)
CloseEvent(dumpok) ==
    /\ IF is_connected THEN disconnect ELSE UNCHANGED serialVars
    /\ IF is_logging
       THEN stop_logging(dumpok)
       ELSE UNCHANGED << loggerVars, diskVars, logHist >>
    /\ outcome' = Outcome("closeEvent", "accepted", None)
    /\ UNCHANGED << camVars, now, sent, windowVars, shellVars, att, pushed, connected_at >>

\* the window has been closed: no handler runs any more
Closed == outcome.call = "closeEvent"

SessionInputs ==
    { NoBytes,
      Line(<< LB, Obj(TeleA), RB, LF >>),
      Line(<< LB, Obj(StatusMsg), RB, CR, LF >>) }

NextSession ==
    \/ \E rx \in SessionInputs :
            /\ ~Closed
            /\ rx.kind = "line" => sent < MaxLines
            /\ UpdateData(rx, "none")
    \/ \E ok, dumpok \in BOOLEAN : ~Closed /\ ToggleConnection(ok, TRUE, dumpok)
    \/ \E dumpok \in BOOLEAN : ~Closed /\ ToggleLogging(TRUE, dumpok)
    \/ ~Closed /\ ToggleCheckbox
    \/ \E dumpok \in BOOLEAN : ~Closed /\ CloseEvent(dumpok)

SpecSession == Init /\ [][NextSession]_vars

(***************************************************************************)
(* The widget runs: pointer events, attitude updates and redraws of one    *)
(* Rocket3DWidget.  Attitudes are whole quarter turns.                     *)
(***************************************************************************)
MaxOrbit == 4       \* the horizontal orbit angle stays within this many half degrees

Attitudes ==
    { [roll |-> 0, pitch |-> 0, yaw |-> 90, altitude |-> 0],
      [roll |-> 90, pitch |-> 0, yaw |-> 0, altitude |-> 0],
      [roll |-> 0, pitch |-> 90, yaw |-> 90, altitude |-> 250] }

Positions == { [x |-> px, y |-> py] : px \in {0, 2}, py \in {0, 100, 500} }

WheelDeltas == {-2400, -600, 600, 2400}

widgetFrame == << now, sent, serialVars, windowVars, shellVars, loggerVars, diskVars,
                 histVars >>

UpdateOrientation(a) ==
    /\ update_orientation(a.roll, a.pitch, a.yaw, a.altitude)
    /\ outcome' = Outcome("update_orientation", "updated", None)
    /\ UNCHANGED << camVars, widgetFrame >>

MousePress(pos) ==
    /\ mousePressEvent(pos)
    /\ outcome' = Outcome("mousePressEvent", "pressed", None)
    /\ UNCHANGED << att, widgetFrame >>

\* move events reach the widget only after a press on it
MouseMove(pos, buttons) ==
    /\ last_mouse_pos # None
    /\ buttons => LET ry == camera_rotation_y + pos.x - last_mouse_pos[1].x
                  IN -MaxOrbit <= ry /\ ry <= MaxOrbit
    /\ mouseMoveEvent(pos, buttons)
    /\ outcome' = Outcome("mouseMoveEvent", IF buttons THEN "dragged" ELSE "hovered", None)
    /\ UNCHANGED << att, widgetFrame >>

Wheel(delta) ==
    /\ wheelEvent(delta)
    /\ outcome' = Outcome("wheelEvent", "zoomed", None)
    /\ UNCHANGED << att, widgetFrame >>

Paint ==
    /\ outcome' = Returned("paintGL", "drawn", Some(paintGL))
    /\ UNCHANGED << att, camVars, widgetFrame >>

NextWidget ==
    \/ \E a \in Attitudes : UpdateOrientation(a)
    \/ \E pos \in Positions : MousePress(pos)
    \/ \E pos \in Positions, buttons \in BOOLEAN : MouseMove(pos, buttons)
    \/ \E delta \in WheelDeltas : Wheel(delta)
    \/ Paint

SpecWidget == Init /\ [][NextWidget]_vars

(***************************************************************************)
(* The camera runs: drags by whole multiples of 10 degrees vertically and  *)
(* of 90 degrees horizontally, scrolls and redraws.                        *)
(***************************************************************************)
MaxTurn == 360      \* the horizontal orbit angle stays within this many half degrees

CameraPositions == { [x |-> px, y |-> py] : px \in {0, 180}, py \in {0, 20, 40} }

DragCamera(pos) ==
    /\ last_mouse_pos # None
    /\ LET ry == camera_rotation_y + pos.x - last_mouse_pos[1].x
       IN -MaxTurn <= ry /\ ry <= MaxTurn
    /\ mouseMoveEvent(pos, TRUE)
    /\ outcome' = Outcome("mouseMoveEvent", "dragged", None)
    /\ UNCHANGED << att, widgetFrame >>

NextCamera ==
    \/ \E pos \in CameraPositions : MousePress(pos)
    \/ \E pos \in CameraPositions : DragCamera(pos)
    \/ \E delta \in WheelDeltas : Wheel(delta)
    \/ Paint

SpecCamera == Init /\ [][NextCamera]_vars

(***************************************************************************)
(* The flush runs: one DataLogger fed a long stream of records, with       *)
(* sessions stopped and started at a few points of the stream.             *)
(***************************************************************************)
\* the record passed to the n-th accepted log_data call
StreamSample(n) ==
    [time |-> n, roll |-> n % 7, pitch |-> n % 5, yaw |-> n % 3, altitude |-> n]

\* the buffer lengths at which the caller may start or stop a session
SessionPoint(n) == n < 3 \/ n % 50 = 0

LogStream(fault) ==
    /\ is_logging
    /\ Len(json_data) < MaxBuffered
    /\ log_data(StreamSample(Len(json_data) + 1), fault)
    /\ outcome' = Outcome("log_data", LogPath(fault), None)
    /\ UNCHANGED << camVars, now, sent, serialVars, windowVars, shellVars, att, pushed,
                    connected_at >>

NextFlush ==
    \/ /\ SessionPoint(Len(json_data))
       /\ StartLogging(TRUE)
    \/ \E fault \in {"none", "write"} : LogStream(fault)
    \/ /\ SessionPoint(Len(json_data))
       /\ StopLogging(TRUE)

SpecFlush == Init /\ [][NextFlush]_vars

(***************************************************************************)
(* The row runs: the same stream, with a row write or a periodic flush     *)
(* that may fail at any call.                                              *)
(***************************************************************************)
NextRows ==
    \/ /\ SessionPoint(Len(json_data))
       /\ StartLogging(TRUE)
    \/ \E fault \in Faults : LogStream(fault)
    \/ /\ SessionPoint(Len(json_data))
       /\ StopLogging(TRUE)

SpecRows == Init /\ [][NextRows]_vars

(***************************************************************************)
(* Properties of the rolling window.                                       *)
(***************************************************************************)
WindowLists ==
    << time_data, roll_data, pitch_data, yaw_data, altitude_data, velocity_data >>

Min(a, b) == IF a <= b THEN a ELSE b

\* C1: in every reachable state each of the six lists of the rolling window
\* holds at most max_points (500) entries, the capacity being the literal of
\* update_data that no operation writes.
C1_WindowBounded ==
    /\ max_points = 500
    /\ \A i \in 1..6 : Len(WindowLists[i]) <= max_points

\* C1 witness: the window is full and records have been evicted.
C1_Witness ==
    /\ Len(time_data) = max_points
    /\ Len(pushed) > max_points
    /\ outcome.path = "telemetry"

\* C2: after k pushes since the last clear the window holds exactly the last
\* min(k, max_points) pushed records, in push order: entry i of every list is
\* the field of the record pushed at position k - min(k, max_points) + i.
C2_LastPushedInOrder ==
    LET k == Len(pushed)
        n == Min(k, max_points)
    IN /\ Len(time_data) = n
       /\ \A i \in 1..n :
            LET d == pushed[k - n + i] IN
            /\ time_data[i] = d["time"]
            /\ roll_data[i] = d["roll"]
            /\ pitch_data[i] = d["pitch"]
            /\ yaw_data[i] = d["yaw"]
            /\ altitude_data[i] = d["altitude"]

\* C2 witness: more than max_points pushes since the last clear, and the
\* oldest entry is the record pushed at 0-based position k - max_points.
C2_Witness ==
    /\ Len(pushed) > max_points + 1
    /\ roll_data[1] = pushed[Len(pushed) - max_points + 1]["roll"]
    /\ roll_data[1] # pushed[1]["roll"]

\* C3: between callbacks the six lists have one length, and entry i of
\* every list comes from one pushed record; a record without velocity
\* contributes 0 to velocity_data.
C3_FieldsAligned ==
    /\ \A i \in 1..6 : Len(WindowLists[i]) = Len(time_data)
    /\ \A i \in 1..Len(time_data) :
          \E j \in 1..Len(pushed) :
             /\ time_data[i] = pushed[j]["time"]
             /\ roll_data[i] = pushed[j]["roll"]
             /\ pitch_data[i] = pushed[j]["pitch"]
             /\ yaw_data[i] = pushed[j]["yaw"]
             /\ altitude_data[i] = pushed[j]["altitude"]
             /\ velocity_data[i] =
                  (IF "velocity" \in DOMAIN pushed[j] THEN pushed[j]["velocity"] ELSE 0)

\* C3 witness: a window holding a record without velocity (entered as 0)
\* next to a record with it.
C3_Witness ==
    /\ Len(pushed) = 2 /\ Len(velocity_data) = 2
    /\ "velocity" \notin DOMAIN pushed[1] /\ velocity_data[1] = 0
    /\ "velocity" \in DOMAIN pushed[2] /\ velocity_data[2] = 51

\* C4: right after clear_data all six lists are empty, no state has some
\* lists empty and others not, and one push after a clear gives every list
\* length 1.
C4_ClearEmptiesAll ==
    /\ outcome.call = "clear_data" => \A i \in 1..6 : WindowLists[i] = << >>
    /\ \A i, j \in 1..6 : (WindowLists[i] = << >>) <=> (WindowLists[j] = << >>)
    /\ Len(pushed) = 1 => \A i \in 1..6 : Len(WindowLists[i]) = 1

\* C4 witness: clear_data has just emptied a window that had overflowed.
C4_Witness ==
    /\ outcome.call = "clear_data" /\ outcome.path = "nonempty"
    /\ sent > max_points
    /\ time_data = << >> /\ velocity_data = << >>

(***************************************************************************)
(* Properties of the line decoder.                                         *)
(***************************************************************************)
\* the outcome is that of a read_data call which found this kind of line
ReadOf(o, lines) == o.call = "read_data" /\ o.arg # None /\ o.arg[1] \in lines

\* C5: read_data on a line that is not brace-enclosed, or does not parse, or
\* is not valid UTF-8, returns no record and lets no exception out; the
\* handler stays connected with its start_time, and a well-formed line read
\* by a connected handler (also after such a line) yields a record.
C5_MalformedDropped ==
    /\ [](ReadOf(outcome, MalformedLines) => outcome.ret = None /\ outcome.exc = None)
    /\ [](ReadOf(outcome, TelemetryLines \cup OtherRecordLines) /\ outcome.path # "closed"
            => outcome.ret # None /\ outcome.exc = None)
    /\ [][sent' = sent + 1 /\ ReadOf(outcome', MalformedLines)
            => is_connected' /\ serial_port' = "open" /\ start_time' = start_time]_vars

\* C5 witness: a connected handler has read a malformed line after an
\* earlier line and returned nothing.
C5_Witness ==
    /\ ReadOf(outcome, MalformedLines) /\ outcome.path = "read_error"
    /\ outcome.ret = None
    /\ is_connected /\ start_time # None /\ sent = 2

\* C7: start_time is the clock reading at which the most recent successful
\* connect began (so only connect writes it), and every record read_data
\* returns carries time = clock reading of the read - that reading, whatever
\* time field the line held.
C7_ElapsedFromConnect ==
    /\ [](start_time = connected_at)
    /\ [][sent' = sent + 1 /\ outcome'.call = "read_data" /\ outcome'.ret # None
            => outcome'.ret[1]["time"] = now - connected_at[1]]_vars

\* C7 witness: after a reconnect, a line that carried its own time field
\* (99) was decoded with the elapsed time of the new session.
C7_Witness ==
    /\ connected_at = Some(2)
    /\ now = 4
    /\ outcome.call = "read_data" /\ outcome.ret # None
    /\ "velocity" \in DOMAIN outcome.ret[1]
    /\ outcome.ret[1]["time"] = 2

(***************************************************************************)
(* Properties of the shell's classification of records.                    *)
(***************************************************************************)
\* C6: a decoded record is pushed into the window and applied to the
\* renderer exactly when it has all of roll, pitch, yaw, altitude; any
\* other record changes neither the window, the logger's buffer and row
\* sink, nor the attitude.
C6_TelemetryIffFourKeys ==
    [][sent' = sent + 1 /\ outcome'.call = "update_data" /\ outcome'.ret # None
        => LET d == outcome'.ret[1] IN
           IF \A k \in {"roll", "pitch", "yaw", "altitude"} : k \in DOMAIN d
           THEN /\ pushed' = Append(pushed, d)
                /\ Len(time_data') = Len(time_data) + 1
                /\ att' = [roll |-> d["roll"], pitch |-> d["pitch"], yaw |-> d["yaw"],
                           altitude |-> d["altitude"]]
           ELSE UNCHANGED << windowVars, pushed, att, json_data, csv_files, accepted >>
    ]_vars

\* C6 witness: a status message was read while a session with logged
\* records was active and the window was not empty.
C6_Witness ==
    /\ outcome.call = "update_data" /\ outcome.ret # None
    /\ "status" \in DOMAIN outcome.ret[1]
    /\ is_logging /\ json_data # << >> /\ time_data # << >>

(***************************************************************************)
(* Properties of the session logger.                                       *)
(***************************************************************************)
\* C8 (original): start_logging on an open session ends with an
\* AlreadyActive error.
C8_AlreadyActiveError ==
    outcome.call = "start_logging" /\ outcome.path = "early_return"
        => outcome.exc = Some("AlreadyActive")

\* C8 (amended): start_logging on an open session returns normally, with no
\* error, and leaves the session untouched: the row sink is not reopened or
\* emptied, no header is added, the buffer and the files are unchanged.
C8_StartWhileOpenIsNoop ==
    [][is_logging /\ outcome'.call = "start_logging" /\ outcome' # outcome
        => /\ outcome'.exc = None
           /\ UNCHANGED << loggerVars, diskVars >>]_vars

\* C8 witness: start_logging has just returned early on a session that
\* holds logged records.
C8_Witness ==
    /\ outcome.call = "start_logging" /\ outcome.path = "early_return"
    /\ is_logging /\ json_data # << >>
    /\ Len(csv_files[csv_filename]) > 1

\* C9: a session's files are named from the clock reading of its own start,
\* so no later session empties the row sink an earlier session wrote.
C9_SessionsNeverShareFiles ==
    /\ ~truncated
    /\ is_logging /\ accepted # << >> =>
          /\ csv_filename = CsvName(session_start[1])
          /\ json_filename = JsonName(session_start[1])

\* C10: the document stop_logging writes holds exactly the records log_data
\* accepted since that session's start, in order, and so do its count and
\* the sample count of the statistics.
C10_DocumentIsThisSession ==
    outcome.call = "stop_logging" /\ outcome.path = "saved"
        => /\ json_files[json_filename].data = accepted
           /\ json_files[json_filename].metadata.total_samples = Len(accepted)
           /\ Len(json_data) = Len(accepted)

\* C11: log_data while no session is active (before the first start or
\* after a stop) raises nothing and changes nothing: no row, no entry in the
\* document buffer, no file, and is_logging stays false.
C11_LogWhileInactiveIsNoop ==
    [][~is_logging /\ outcome'.call = "log_data"
        => /\ outcome'.path = "inactive"
           /\ outcome'.exc = None
           /\ ~is_logging'
           /\ UNCHANGED << loggerVars, diskVars >>]_vars

\* C11 witness: log_data has just returned on a logger whose session, with
\* records in the buffer, was stopped.
C11_Witness ==
    /\ outcome.call = "log_data" /\ outcome.path = "inactive"
    /\ ~is_logging
    /\ json_data # << >>
    /\ json_filename \in DOMAIN json_files

\* C12: counting the samples a session accepted from 1, the row sink has
\* been flushed once for every full hundred of them and at no other call,
\* so 250 samples of a session cause two flushes.
C12_FlushEveryHundredthOfSession ==
    is_logging => flushes = Len(accepted) \div FlushEvery

C14_SaveFailureEndsSession ==
    /\ [](outcome.call = "stop_logging" /\ outcome.path = "save_failed"
            => ~is_logging /\ outcome.exc = << >>)
    /\ [][outcome.path = "save_failed" /\ outcome'.call = "start_logging"
            => /\ outcome'.path # "early_return"
               /\ outcome'.path = "opened" => is_logging' /\ csv_file' = "open"]_vars
    /\ [][outcome.path = "save_failed" /\ outcome'.call = "log_data"
            => /\ outcome'.path = "inactive"
               /\ UNCHANGED << loggerVars, diskVars >>]_vars

\* C14 witness: stop_logging has just failed to write the document of a
\* session that holds records.
C14_Witness ==
    /\ outcome.call = "stop_logging" /\ outcome.path = "save_failed"
    /\ ~is_logging
    /\ json_data # << >>
    /\ ~json_files[json_filename].complete

ExpectedCell(d, col) ==
    LET key == IF col = "time_seconds" THEN "time" ELSE col IN
    IF key \in DOMAIN d THEN d[key]
    ELSE IF col \in {"bno_status", "adxl1_status", "adxl2_status", "bmp_status"}
         THEN "UNKNOWN" ELSE 0

\* C16: every accepted log_data call appends one row of 14 values to the
\* row sink, in the column order of the header, and one entry to the
\* document buffer; a field the sample lacks is written as 0 (numeric
\* columns) or "UNKNOWN" (status columns), and the sample is accepted all
\* the same.
C16_RowPerAcceptedSample ==
    [][is_logging /\ now' = now /\ outcome'.call = "log_data" /\ outcome'.path = "accepted"
        => LET rows == csv_files[csv_filename]
               rows2 == csv_files'[csv_filename]
               row == rows2[Len(rows2)]
               d == json_data'[Len(json_data')]
           IN /\ Len(json_data') = Len(json_data) + 1
              /\ SubSeq(json_data', 1, Len(json_data)) = json_data
              /\ Len(rows2) = Len(rows) + 1
              /\ SubSeq(rows2, 1, Len(rows)) = rows
              /\ rows2[1] = Header
              /\ Len(row) = 14 /\ Len(Header) = 14
              /\ d["timestamp"] = << "iso", now >>
              /\ \A i \in 1..14 : row[i] = ExpectedCell(d, Header[i])
    ]_vars

\* C16 witness: a sample holding only an altitude has just been accepted
\* and written with the defaults in its other columns.
C16_Witness ==
    /\ outcome.call = "log_data" /\ outcome.path = "accepted"
    /\ is_logging
    /\ LET rows == csv_files[csv_filename]
           row == rows[Len(rows)]
       IN /\ Len(rows) = 3
          /\ DOMAIN json_data[Len(json_data)] = {"altitude", "timestamp"}
          /\ row[6] = 7 /\ row[3] = 0 /\ row[8] = "UNKNOWN"

(***************************************************************************)
(* Properties of the shell's handling of sessions.                         *)
(***************************************************************************)
\* C17: a handler that disconnects the transport while a session is active
\* (the disconnect button or the closing of the window) also stops the
\* session: afterwards the logger is inactive, the row sink is closed and
\* the document file is written, holding the buffer unless serialising it
\* failed; the six window lists are unchanged.
C17_DisconnectStopsSession ==
    [][is_connected /\ ~is_connected' /\ is_logging
        => /\ outcome'.call \in {"toggle_connection", "closeEvent"}
           /\ ~is_logging'
           /\ csv_file' = "closed"
           /\ json_filename \in DOMAIN json_files'
           /\ LET doc == json_files'[json_filename] IN
                 doc.complete => /\ doc.data = json_data
                                 /\ doc.metadata.total_samples = Len(json_data)
           /\ UNCHANGED windowVars
    ]_vars

\* C17 witness: the window was closed while connected and logging; the
\* session's document holds its record and the window still holds it too.
C17_Witness ==
    /\ outcome.call = "closeEvent"
    /\ ~is_connected /\ serial_port = "closed"
    /\ ~is_logging /\ csv_file = "closed"
    /\ json_filename \in DOMAIN json_files
    /\ json_files[json_filename].complete
    /\ Len(json_files[json_filename].data) = 1
    /\ Len(time_data) = 1

(***************************************************************************)
(* Properties of the 3-D view.                                             *)
(***************************************************************************)
\* C18: whatever drag and scroll events have occurred, the camera's vertical
\* orbit angle is within [-89, 89] degrees (178 half degrees) and its orbit
\* distance within [2, 15] units (200 to 1500 hundredths); the initial 20
\* degrees and 5.0 units are within them.
C18_CameraWithinLimits ==
    /\ -178 <= camera_rotation_x /\ camera_rotation_x <= 178
    /\ 200 <= camera_distance /\ camera_distance <= 1500

\* C18 witness: a drag and a scroll larger than the whole range have left
\* the camera at the lower angle limit and the upper distance limit.
C18_Witness ==
    /\ camera_rotation_x = -178
    /\ camera_distance = 1500
    /\ outcome.call \in {"mouseMoveEvent", "wheelEvent"}

\* C19: a redraw draws the grid and the horizon untransformed and then the
\* vehicle and the axes under one transform: the translation by altitude
\* hundredths of a unit along Y, then the rotations yaw about Y, pitch about
\* X and roll about Z, i.e. Ry(yaw) * Rx(pitch) * Rz(roll).  A yaw of 90
\* degrees and a roll of 90 degrees give different vehicle axes.
C19_YawPitchRollOrder ==
    outcome.call = "paintGL" =>
        LET f == outcome.ret[1]
            ry == RotationMatrix(att.yaw, <<0, 1, 0>>)
            rx == RotationMatrix(att.pitch, <<1, 0, 0>>)
            rz == RotationMatrix(att.roll, <<0, 0, 1>>)
        IN /\ Len(f) = 4
           /\ f[1] = [what |-> "draw_grid", L |-> Identity3, t |-> <<0, 0, 0>>]
           /\ f[2] = [what |-> "draw_horizon", L |-> Identity3, t |-> <<0, 0, 0>>]
           /\ f[3].what = "draw_rocket" /\ f[4].what = "draw_axes"
           /\ f[3].t = <<0, att.altitude, 0>> /\ f[4].t = f[3].t
           /\ f[3].L = Mul(Mul(ry, rx), rz) /\ f[4].L = f[3].L
           /\ att.yaw = 90 /\ att.pitch = 0 /\ att.roll = 0
                 => f[3].L = << <<0, 0, 1>>, <<0, 1, 0>>, <<-1, 0, 0>> >>
           /\ att.yaw = 0 /\ att.pitch = 0 /\ att.roll = 90
                 => f[3].L = << <<0, -1, 0>>, <<1, 0, 0>>, <<0, 0, 1>> >>
           /\ att.yaw = 90 /\ att.pitch = 90 /\ att.roll = 0
                 => f[3].L = << <<0, 1, 0>>, <<0, 0, -1>>, <<-1, 0, 0>> >>

\* C19 witness: a redraw of a vehicle yawed and pitched by 90 degrees at
\* altitude 250.
C19_Witness ==
    /\ outcome.call = "paintGL"
    /\ att.yaw = 90 /\ att.pitch = 90
    /\ outcome.ret[1][3].t = <<0, 250, 0>>
    /\ outcome.ret[1][3].L # Identity3

\* C20: update_orientation leaves the camera's distance and two angles
\* unchanged; press, drag and scroll events leave roll, pitch, yaw and
\* altitude unchanged; and the camera changes only in a drag with a button
\* held or in a scroll.
C20_CameraIndependentOfAttitude ==
    [][/\ outcome'.call = "update_orientation" =>
             UNCHANGED << camera_distance, camera_rotation_x, camera_rotation_y >>
       /\ outcome'.call \in {"mousePressEvent", "mouseMoveEvent", "wheelEvent"} =>
             att' = att
       /\ << camera_distance, camera_rotation_x, camera_rotation_y >>'
             # << camera_distance, camera_rotation_x, camera_rotation_y >> =>
             \/ outcome'.call = "mouseMoveEvent" /\ outcome'.path = "dragged"
             \/ outcome'.call = "wheelEvent"
    ]_vars

\* C20 witness: update_orientation has been called on a widget whose camera
\* was moved away from its initial place.
C20_Witness ==
    /\ outcome.call = "update_orientation"
    /\ att.roll = 90
    /\ camera_distance # 500 /\ camera_rotation_x # 40 /\ camera_rotation_y # 0

\* C21: on a redraw the eye point passed to gluLookAt is at distance
\* camera_distance from the origin (compared as squares, in two-hundredths
\* of a unit), at every pair of orbit angles where the eye point is
\* rational.
C21_EyeOnSphere ==
    outcome.call = "paintGL" /\ LookAtEye # << >> =>
        LET e == LookAtEye[1] IN
        e[1] * e[1] + e[2] * e[2] + e[3] * e[3]
            = (2 * camera_distance) * (2 * camera_distance)

(***************************************************************************)
(* Properties of the timer tick.                                           *)
(***************************************************************************)
\* the number of data rows in the row sink of the logger's file
DataRows == IF csv_filename \in DOMAIN csv_files
            THEN Len(csv_files[csv_filename]) - 1 ELSE 0

TickRecord == outcome.ret[1]

\* C23: on a tick that reads a telemetry record while a session is active,
\* either the record is logged (one row, one buffer entry) or, when writing
\* its row failed, the log is left as it was; in both cases no exception
\* leaves the tick, the session stays active with its row sink open, the
\* record is appended to the window and its attitude is given to the
\* renderer.
C23_RowFailureStaysInLogger ==
    [][is_logging /\ sent' = sent + 1 /\ outcome'.call = "update_data"
         /\ outcome'.path = "telemetry" =>
            LET d == TickRecord' IN
            /\ outcome'.exc = << >>
            /\ is_logging' /\ csv_file' = "open"
            /\ \/ UNCHANGED << json_data, csv_files, flushes >>
               \/ /\ json_data' = Append(json_data, SetItem(d, "timestamp", isoformat(now)))
                  /\ DataRows' = DataRows + 1
            /\ pushed' = Append(pushed, d)
            /\ time_data' = Append(time_data, d["time"])
            /\ velocity_data' = Append(velocity_data, VelocityOf(d))
            /\ att' = [roll |-> d["roll"], pitch |-> d["pitch"],
                       yaw |-> d["yaw"], altitude |-> d["altitude"]]
    ]_vars

\* C23 witness: the last tick read a telemetry record whose row could not
\* be written: the session is active with an empty buffer and a row sink
\* holding only the header, and the record is the newest window entry and
\* the renderer's attitude.
C23_Witness ==
    /\ outcome.call = "update_data" /\ outcome.path = "telemetry"
    /\ is_logging /\ json_data = << >> /\ DataRows = 0
    /\ pushed # << >> /\ pushed[Len(pushed)] = TickRecord
    /\ time_data[Len(time_data)] = TickRecord["time"]
    /\ att.roll = TickRecord["roll"]

\* C24: no exception leaves the connect handler or the Start Logging
\* handler: a row sink that cannot be opened is handled inside
\* start_logging, which returns to the shell with the logger inactive.
C24_OpenFailureIsCaught ==
    outcome.call \in {"toggle_connection", "toggle_logging"} =>
        outcome.exc = << >>

\* C25: a tick on which reading the transport fails (no line is taken) ends
\* with the shell no longer showing the transport as connected and with the
\* data flow paused: the handler is disconnected and the timer stopped.
C25_ReadErrorDisconnects ==
    [][/\ outcome'.call = "update_data" /\ outcome'.path = "read_error"
       /\ sent' = sent /\ outcome' # outcome
       => /\ status_label' # "CONNECTED"
          /\ ~is_connected'
          /\ ~timer_active'
    ]_vars

\* the logger is in its first session: it is active and has never stopped
FirstSession == is_logging /\ json_filename \notin DOMAIN json_files

\* C26: during a logger's first session the row sink holds one data row per
\* buffered sample, the i-th row being the row of the i-th buffered sample,
\* whether or not row writes or periodic flushes have failed.
C26_RowsMatchBuffer ==
    FirstSession =>
        /\ DataRows = Len(json_data)
        /\ json_data = accepted
        /\ \A i \in 1..Len(json_data) :
              csv_files[csv_filename][i + 1] = Row(json_data[i])

\* C26 witness: in a first session the periodic flush has just failed at
\* the hundredth sample, which is in the buffer and in the row sink.
C26_Witness ==
    /\ FirstSession
    /\ outcome.call = "log_data" /\ outcome.path = "flush_failed"
    /\ Len(json_data) = FlushEvery /\ DataRows = FlushEvery
    /\ flushes = 0

\* C27: in every reachable state of the logging shell a session is active
\* only while the transport is connected.
C27_LoggingOnlyWhileConnected ==
    is_logging => is_connected

\* C27 (amended): a session is active with the transport disconnected only
\* when the Start Logging button opened it while disconnected; no
\* disconnect leaves a session active, and such a session takes no sample
\* until the transport is connected.
C27_DisconnectedSessionOnlyByButton ==
    [][is_logging' /\ ~is_connected' =>
          /\ ~is_connected
          /\ \/ ~is_logging /\ outcome'.call = "toggle_logging"
                /\ outcome'.path = "opened"
             \/ is_logging /\ UNCHANGED << json_data, csv_files, is_connected >>
    ]_vars

\* C27 witness: the Start Logging button has opened a session after the
\* transport was connected and disconnected again.
C27_Witness ==
    /\ is_logging /\ ~is_connected /\ csv_file = "open"
    /\ connected_at # << >> /\ status_label = "DISCONNECTED"
    /\ outcome.call = "toggle_logging"

====
